---------------------------- MODULE Spec2Model ----------------------------
(***************************************************************************)
(* The football scorer page (FootballScorer in src/app/offline/page.tsx):  *)
(* two rosters, the scoreboard, the action log and the handlers that       *)
(* change them.  The file holds two editions of the page: the later one    *)
(* (lines 1045-1803) picks players from the directory and is the           *)
(* specification Spec; the earlier one (lines 347-1043) starts with five   *)
(* default players a side, adds "Gracz n" and lets names be typed, and is  *)
(* the specification SpecV1.  The game-screen handlers of the two are the  *)
(* same text.                                                              *)
(*                                                                         *)
(* React state: a handler is a closure over the values of the render it    *)
(* belongs to, and every setX(value) it calls replaces X when the handler  *)
(* returns.  A handler is therefore an operator from a rendered view v to  *)
(* the record of the fields it sets; Apply lays those fields over the      *)
(* current state.  In Spec and SpecV1 every handler runs against the       *)
(* current state (React renders between two events); SpecTaps adds two     *)
(* handlers running against one and the same view.                         *)
(*                                                                         *)
(* The Dialog component (components/ui/dialog) is not among the sources.   *)
(* The model takes from the page what the page states: the buttons inside  *)
(* a dialog exist while the dialog's open flag is set.  It does not assume *)
(* that an open dialog blocks the other controls of the screen.            *)
(*                                                                         *)
(* Beside the page: getPlayers and its built-in list, the SoundManager of  *)
(* src/lib/sounds.ts with its later edition (custom sounds, a fallback     *)
(* sound), and the service worker of src/public/sw.js.  Each is a record   *)
(* in a variable of its own and has its own specifications; the page does  *)
(* not change them and they do not change the page.                        *)
(***************************************************************************)
EXTENDS Integers, Sequences, FiniteSets

VARIABLES
    mode,               \* "setup" | "game"
    gameActive,         \* BOOLEAN
    availablePlayers,   \* sequence of directory rows [id, name]
    playersLoading,     \* BOOLEAN
    playerSelectDialog, \* [open, team], team "none" for null
    yellowPlayers,      \* sequence of [id, name, goals, assists]
    bluePlayers,
    yellowScore,
    blueScore,
    actions,            \* sequence of [id, type, team, scorer, assistant]
    assistDialogOpen,
    pendingGoal,        \* [team, scorer], team "none" for null
    resetDialogOpen,
    clock,              \* Date.now(), counted in milliseconds from the page load
    removals,           \* number of removePlayer commands issued so far
    started,            \* history: ROZPOCZNIJ GRE has been pressed
    soundManager,       \* the fields of the SoundManager object (lib/sounds.ts)
    serviceWorker       \* the worker of public/sw.js and the origin's caches

pageVars == <<mode, gameActive, availablePlayers, playersLoading, playerSelectDialog,
              yellowPlayers, bluePlayers, yellowScore, blueScore, actions,
              assistDialogOpen, pendingGoal, resetDialogOpen, clock, removals,
              started>>

vars == <<pageVars, soundManager, serviceWorker>>

-----------------------------------------------------------------------------
(* Program constants *)

MinPlayers == 5
MaxPlayers == 8

(* Bounds of the exploration *)

\* removePlayer commands explored in one run
MaxRemovals == 1
\* readings of the clock explored in one run (a recording reads it, and so does
\* addPlayer of the earlier edition): each is a millisecond after the one before
MaxClock == 2

Teams == {"yellow", "blue"}

NoTeam == "none"

\* an absent assistant (undefined) and an empty name are both falsy in the page's tests
NoAssistant == ""

\* toLocaleTimeString(hour, minute) shows the minute the clock is in
MsPerMinute == 60000

\* toLocaleDateString shows the day the clock is in
MsPerDay == 86400000

OWN_GOAL_SENTINEL == "SAMOBOJ"

NoGoal == [team |-> NoTeam, scorer |-> ""]

ClosedSelect == [open |-> FALSE, team |-> NoTeam]

\* the built-in directory, names in ASCII
DefaultNames ==
    << "Adam S.", "Adam T.", "Andrzej T.", "Bartek D.", "Franek W.", "Grzegorz G.",
       "Grzegorz O.", "Jakub K.", "Jedrek K.", "Kamil E.", "Konrad L.", "Kornel O.",
       "Krystian G.", "Lukasz B.", "Lukasz J.", "Maciej M.", "Marcin P.", "Marek Z.",
       "Mateusz W.", "Michal G.", "Michal T.", "Mikolaj T.", "Oskar B.", "Pawel L.",
       "Pawel W.", "Piotrek P.", "Przemek W.", "Radek K.", "Radek P.", "Robert G.",
       "Szymon B.", "Tomasz L.", "Tomek L.", "Tomek W." >>

getDefaultPlayers == [i \in 1..Len(DefaultNames) |-> [id |-> i, name |-> DefaultNames[i]]]

\* A players table with the first names of scripts/01-create-players-table.sql,
\* ordered by name: the smallest table from which two teams can be picked.  The
\* built-in list of 34 is explored in SpecSetup.
PlayersTable == SubSeq(getDefaultPlayers, 1, MinPlayers + MinPlayers)

\* the same table with one more row: a team can be picked and a player spared
PlayersTableWithSpare == SubSeq(getDefaultPlayers, 1, MinPlayers + MinPlayers + 1)

-----------------------------------------------------------------------------
(* Helpers on sequences *)

Range(s) == {s[i] : i \in 1..Len(s)}

RECURSIVE Filter(_, _)
Filter(s, keep) ==
    IF s = <<>> THEN <<>>
    ELSE IF Head(s) \in keep THEN <<Head(s)>> \o Filter(Tail(s), keep)
         ELSE Filter(Tail(s), keep)

Names(players) == {players[i].name : i \in 1..Len(players)}

Max0(n) == IF n < 0 THEN 0 ELSE n

-----------------------------------------------------------------------------
(* The rendered view and the writes of a handler *)

View ==
    [ mode |-> mode, gameActive |-> gameActive,
      availablePlayers |-> availablePlayers, playersLoading |-> playersLoading,
      playerSelectDialog |-> playerSelectDialog,
      yellowPlayers |-> yellowPlayers, bluePlayers |-> bluePlayers,
      yellowScore |-> yellowScore, blueScore |-> blueScore, actions |-> actions,
      assistDialogOpen |-> assistDialogOpen, pendingGoal |-> pendingGoal,
      resetDialogOpen |-> resetDialogOpen ]

\* a handler that returns before any setX
NoWrites == [k \in {} |-> FALSE]

\* the writes w, then the writes x of the same handler
Both(w, x) ==
    [k \in (DOMAIN w) \cup (DOMAIN x) |-> IF k \in DOMAIN x THEN x[k] ELSE w[k]]

\* the state after a handler whose writes are w has returned
Apply(v, w) == [k \in DOMAIN v |-> IF k \in DOMAIN w THEN w[k] ELSE v[k]]

Roster(v, team) == IF team = "yellow" THEN v.yellowPlayers ELSE v.bluePlayers

SetRoster(team, players) ==
    IF team = "yellow" THEN [yellowPlayers |-> players] ELSE [bluePlayers |-> players]

Score(v, team) == IF team = "yellow" THEN v.yellowScore ELSE v.blueScore

SetScore(team, n) == IF team = "yellow" THEN [yellowScore |-> n] ELSE [blueScore |-> n]

Timestamp(now) == now \div MsPerMinute

-----------------------------------------------------------------------------
(* Setup screen of the later edition *)

openPlayerSelect(v, team) == [playerSelectDialog |-> [open |-> TRUE, team |-> team]]

\* onOpenChange of the player selection dialog
selectDialogChange(v, open) == [playerSelectDialog |-> [open |-> open, team |-> NoTeam]]

NewPlayerFromDB(team, dbPlayer) ==
    [id |-> <<team, dbPlayer.id>>, name |-> dbPlayer.name, goals |-> 0, assists |-> 0]

\* a length test that lets a ninth player in
MayAddFromDBUpToMax(players, dbPlayer) ==
    Len(players) <= MaxPlayers /\ dbPlayer.name \notin Names(players)

\* the test of addPlayerFromDB before it appends
MayAddFromDB(players, dbPlayer) ==
    Len(players) < MaxPlayers /\ dbPlayer.name \notin Names(players)

addPlayerFromDB(v, dbPlayer) ==
    LET team == v.playerSelectDialog.team
        players == Roster(v, team)
    IN  IF team = NoTeam THEN NoWrites
        ELSE Both(IF MayAddFromDB(players, dbPlayer)
                  THEN SetRoster(team, Append(players, NewPlayerFromDB(team, dbPlayer)))
                  ELSE NoWrites,
                  [playerSelectDialog |-> ClosedSelect])

RECURSIVE WithoutId(_, _)
WithoutId(players, playerId) ==
    IF players = <<>> THEN <<>>
    ELSE IF Head(players).id # playerId
         THEN <<Head(players)>> \o WithoutId(Tail(players), playerId)
         ELSE WithoutId(Tail(players), playerId)

removePlayer(v, team, playerId) == SetRoster(team, WithoutId(Roster(v, team), playerId))

\* a start test that looks at one team only
canStartGameYellowOnly(v) == Len(v.yellowPlayers) >= MinPlayers

canStartGame(v) == Len(v.yellowPlayers) >= MinPlayers /\ Len(v.bluePlayers) >= MinPlayers

\* a start that also begins a fresh match
startGameResetting(v) ==
    [mode |-> "game", yellowScore |-> 0, blueScore |-> 0, actions |-> <<>>]

\* onClick of ROZPOCZNIJ GRE
startGame(v) == [mode |-> "game"]

RECURSIVE NotSelected(_, _)
NotSelected(rows, selected) ==
    IF rows = <<>> THEN <<>>
    ELSE IF Head(rows).name \notin selected
         THEN <<Head(rows)>> \o NotSelected(Tail(rows), selected)
         ELSE NotSelected(Tail(rows), selected)

getAvailablePlayersForTeam(v, team) ==
    NotSelected(v.availablePlayers, Names(v.yellowPlayers) \cup Names(v.bluePlayers))

-----------------------------------------------------------------------------
(* Game screen *)

handlePlayerClick(v, team, playerName) ==
    IF ~v.gameActive THEN NoWrites
    ELSE [pendingGoal |-> [team |-> team, scorer |-> playerName], assistDialogOpen |-> TRUE]

\* an own goal that is logged and not scored
handleOwnGoalLogOnly(v, team, now) ==
    IF ~v.gameActive THEN NoWrites
    ELSE [actions |-> Append(v.actions,
                             [id |-> now, timestamp |-> Timestamp(now),
                              type |-> "own_goal", team |-> team,
                              scorer |-> OWN_GOAL_SENTINEL, assistant |-> NoAssistant])]

\* an own goal that counts for the other team
handleOwnGoalForOpponent(v, team, now) ==
    IF ~v.gameActive THEN NoWrites
    ELSE LET action == [id |-> now, timestamp |-> Timestamp(now), type |-> "own_goal",
                        team |-> team, scorer |-> OWN_GOAL_SENTINEL,
                        assistant |-> NoAssistant]
             credited == IF team = "yellow" THEN "blue" ELSE "yellow"
         IN  Both([actions |-> Append(v.actions, action)],
                  SetScore(credited, Score(v, credited) + 1))

handleOwnGoal(v, team, now) ==
    IF ~v.gameActive THEN NoWrites
    ELSE LET action == [id |-> now, timestamp |-> Timestamp(now), type |-> "own_goal",
                        team |-> team, scorer |-> OWN_GOAL_SENTINEL,
                        assistant |-> NoAssistant]
         IN  Both([actions |-> Append(v.actions, action)],
                  SetScore(team, Score(v, team) + 1))

updatePlayerStats(players, scorer, assistantName) ==
    [i \in 1..Len(players) |->
        IF players[i].name = scorer
        THEN [players[i] EXCEPT !.goals = @ + 1]
        ELSE IF assistantName # NoAssistant /\ players[i].name = assistantName
             THEN [players[i] EXCEPT !.assists = @ + 1]
             ELSE players[i]]

confirmGoal(v, assistantName, now) ==
    IF v.pendingGoal.team = NoTeam THEN NoWrites
    ELSE LET team == v.pendingGoal.team
             action == [id |-> now, timestamp |-> Timestamp(now), type |-> "goal",
                        team |-> team, scorer |-> v.pendingGoal.scorer,
                        assistant |-> assistantName]
         IN  Both(Both(Both([actions |-> Append(v.actions, action)],
                            SetScore(team, Score(v, team) + 1)),
                       SetRoster(team, updatePlayerStats(Roster(v, team),
                                                         v.pendingGoal.scorer,
                                                         assistantName))),
                  [pendingGoal |-> NoGoal, assistDialogOpen |-> FALSE])

\* an undo that gives back the goal and keeps the assist
revertPlayerStatsGoalsOnly(players, lastAction) ==
    [i \in 1..Len(players) |->
        IF players[i].name = lastAction.scorer
        THEN [players[i] EXCEPT !.goals = Max0(@ - 1)]
        ELSE players[i]]

revertPlayerStats(players, lastAction) ==
    [i \in 1..Len(players) |->
        IF players[i].name = lastAction.scorer
        THEN [players[i] EXCEPT !.goals = Max0(@ - 1)]
        ELSE IF lastAction.assistant # NoAssistant /\ players[i].name = lastAction.assistant
             THEN [players[i] EXCEPT !.assists = Max0(@ - 1)]
             ELSE players[i]]

\* an undo that takes the oldest entry off the log
undoLastActionOldest(v) ==
    IF Len(v.actions) = 0 THEN NoWrites
    ELSE LET lastAction == v.actions[1]
             team == lastAction.team
         IN  Both(Both([actions |-> Tail(v.actions)],
                       SetScore(team, Max0(Score(v, team) - 1))),
                  IF lastAction.type = "goal"
                  THEN SetRoster(team, revertPlayerStats(Roster(v, team), lastAction))
                  ELSE NoWrites)

undoLastAction(v) ==
    IF Len(v.actions) = 0 THEN NoWrites
    ELSE LET lastAction == v.actions[Len(v.actions)]
             team == lastAction.team
         IN  Both(Both([actions |-> SubSeq(v.actions, 1, Len(v.actions) - 1)],
                       SetScore(team, Max0(Score(v, team) - 1))),
                  IF lastAction.type = "goal"
                  THEN SetRoster(team, revertPlayerStats(Roster(v, team), lastAction))
                  ELSE NoWrites)

ZeroStats(players) ==
    [i \in 1..Len(players) |-> [players[i] EXCEPT !.goals = 0, !.assists = 0]]

confirmReset(v) ==
    [ yellowScore |-> 0, blueScore |-> 0, actions |-> <<>>, gameActive |-> FALSE,
      yellowPlayers |-> ZeroStats(v.yellowPlayers),
      bluePlayers |-> ZeroStats(v.bluePlayers), resetDialogOpen |-> FALSE ]

\* The text of exportLog, line by line.  A line of the events section is its
\* timestamp and the pieces of text that follow it; a line of the statistics
\* section is the values and the words put into its template.
TeamLabel(team) == IF team = "yellow" THEN "Zolci" ELSE "Niebiescy"

DateLabel(now) == now \div MsPerDay

\* a line that shows the assist whether there was one or not
EventLineAlwaysAssist(action) ==
    [ timestamp |-> action.timestamp,
      text |-> IF action.type = "goal"
               THEN << " - Gol: ", action.scorer, " (", TeamLabel(action.team), ")",
                       ", Asysta: ", action.assistant >>
               ELSE << " - Samoboj (", TeamLabel(action.team), ")" >> ]

EventLine(action) ==
    [ timestamp |-> action.timestamp,
      text |-> IF action.type = "goal"
               THEN << " - Gol: ", action.scorer, " (", TeamLabel(action.team), ")" >>
                    \o (IF action.assistant # NoAssistant
                        THEN << ", Asysta: ", action.assistant >>
                        ELSE << >>)
               ELSE << " - Samoboj (", TeamLabel(action.team), ")" >> ]

WithTeam(players, label) ==
    [i \in 1..Len(players) |->
        [name |-> players[i].name, team |-> label,
         goals |-> players[i].goals, assists |-> players[i].assists]]

RECURSIVE WithStats(_)
WithStats(players) ==
    IF players = <<>> THEN <<>>
    ELSE IF Head(players).goals > 0 \/ Head(players).assists > 0
         THEN <<Head(players)>> \o WithStats(Tail(players))
         ELSE WithStats(Tail(players))

\* a comparator that puts the fewest goals first
compareStatsAscending(a, b) ==
    IF b.goals # a.goals THEN a.goals - b.goals ELSE a.assists - b.assists

\* the comparator of the sort: negative when a goes before b
compareStats(a, b) ==
    IF b.goals # a.goals THEN b.goals - a.goals ELSE b.assists - a.assists

\* Array.prototype.sort is stable: a player goes behind those it does not beat
RECURSIVE InsertPlayer(_, _)
InsertPlayer(sorted, player) ==
    IF sorted = <<>> THEN <<player>>
    ELSE IF compareStats(Head(sorted), player) <= 0
         THEN <<Head(sorted)>> \o InsertPlayer(Tail(sorted), player)
         ELSE <<player>> \o sorted

RECURSIVE SortPlayers(_)
SortPlayers(players) ==
    IF players = <<>> THEN <<>>
    ELSE InsertPlayer(SortPlayers(SubSeq(players, 1, Len(players) - 1)),
                      players[Len(players)])

StatsLine(player) ==
    [ name |-> player.name, team |-> player.team,
      goals |-> player.goals, goalsWord |-> IF player.goals = 1 THEN "gol" ELSE "gole",
      assists |-> player.assists,
      assistsWord |-> IF player.assists = 1 THEN "asysta" ELSE "asysty" ]

\* the text handed to the download; exportLog calls no setter
exportLog(v, now) ==
    LET allPlayers == WithTeam(v.yellowPlayers, TeamLabel("yellow"))
                      \o WithTeam(v.bluePlayers, TeamLabel("blue"))
        sortedPlayers == SortPlayers(WithStats(allPlayers))
    IN  [ date |-> DateLabel(now),
          yellowScore |-> v.yellowScore, blueScore |-> v.blueScore,
          events |-> [i \in 1..Len(v.actions) |-> EventLine(v.actions[i])],
          stats |-> [i \in 1..Len(sortedPlayers) |-> StatsLine(sortedPlayers[i])] ]

\* the names the assist dialog offers
AssistChoices(v) ==
    IF v.pendingGoal.team = NoTeam THEN <<>>
    ELSE LET players == Roster(v, v.pendingGoal.team)
         IN  Filter([i \in 1..Len(players) |-> players[i].name],
                    Names(players) \ {v.pendingGoal.scorer})

-----------------------------------------------------------------------------
(* The sound manager *)

\* Two editions of the manager are among the sources: src/lib/sounds.ts and the
\* later one that adds custom sounds and a fallback sound (src/unnamed/part_004)
Editions == {"lib", "later"}

\* maxRetries of loadSound in the two editions
LibMaxRetries == 2
LaterMaxRetries == 3

\* volume 0.7, counted in hundredths
DefaultVolume == 70
FullVolume == 100

\* undefined: what a Map answers for a key it does not hold
NoSound == "undefined"

\* The sounds explored.  Of the sounds with files of lib/sounds.ts the two that
\* the team defaults select; the two base sounds of the later edition; the ids
\* that addCustomSound makes, in the order in which it makes them.
LibSounds == <<"commentary", "yellow-horn">>
BaseSounds == <<"commentary", "horn">>
CustomIds == <<"custom_1", "custom_2">>
SoundIds == Range(LibSounds) \cup Range(BaseSounds) \cup Range(CustomIds)

\* scorers explored: one with an entry in PLAYER_SOUNDS, one without
SoundPlayers == {"Adam S.", "Adam T."}

PLAYER_SOUNDS(playerName) == IF playerName = "Adam S." THEN "commentary" ELSE NoSound

TEAM_DEFAULT_SOUNDS(edition, team) ==
    IF team = "blue" THEN "commentary"
    ELSE IF edition = "lib" THEN "yellow-horn" ELSE "horn"

\* The calls of loadSound in flight: preloadSounds after the first interaction,
\* preloadSounds from a preview made before it, and the load that follows an
\* upload.  A chain is at "check" (probing the files), at "audio" (waiting for
\* the audio element), at "wait" (the delay before a retry), "idle" or "done".
LoadChains == {"interaction", "preview", "upload"}

\* the object after its constructor, with the custom sounds found in storage
NewSoundManager(edition, stored) ==
    [edition |-> edition,
     enabled |-> TRUE,
     volume |-> DefaultVolume,
     userInteracted |-> FALSE,
     audioCache |-> {},
     loadingStatus |-> [soundId \in SoundIds |-> NoSound],
     errorDetails |-> {},
     customSounds |-> stored,
     uploads |-> Len(stored),
     playerAssignments |-> [playerName \in SoundPlayers |-> NoSound],
     fallbackSound |-> FALSE,
     chains |-> [chain \in LoadChains |->
                    [pc |-> "idle", todo |-> <<>>, retryCount |-> 0]],
     staleListeners |-> {},
     lastPlay |-> NoSound]

\* the sounds with files that preloadSounds walks through
SoundsWithFiles(m) ==
    IF m.edition = "lib" THEN LibSounds ELSE BaseSounds \o m.customSounds

MaxRetriesOf(m) == IF m.edition = "lib" THEN LibMaxRetries ELSE LaterMaxRetries

\* a retry test that lets one more attempt through
MayRetryOnceMore(m, retryCount) == retryCount <= MaxRetriesOf(m)

MayRetry(m, retryCount) == retryCount < MaxRetriesOf(m)

SetStatus(m, soundId, status) == [m EXCEPT !.loadingStatus[soundId] = status]

\* loadSound as far as its first await: the status is "loading"
beginLoad(m, chain, todo, retryCount) ==
    [SetStatus(m, Head(todo), "loading") EXCEPT
         !.chains[chain] = [pc |-> "check", todo |-> todo, retryCount |-> retryCount]]

\* the caller of loadSound goes on: the next sound of preloadSounds, or the end
loadNext(m, chain, todo) ==
    IF todo = <<>>
    THEN [m EXCEPT !.chains[chain] = [pc |-> "done", todo |-> <<>>, retryCount |-> 0]]
    ELSE beginLoad(m, chain, todo, 0)

\* the try block went through: cache and status are set
loadSucceeded(m, chain) ==
    LET soundId == Head(m.chains[chain].todo)
    IN  loadNext([SetStatus(m, soundId, "loaded") EXCEPT !.audioCache = @ \cup {soundId}],
                 chain, Tail(m.chains[chain].todo))

\* the catch block of loadSound
loadFailed(m, chain) ==
    LET this == m.chains[chain]
        soundId == Head(this.todo)
        failed == [SetStatus(m, soundId, "error") EXCEPT !.errorDetails = @ \cup {soundId}]
    IN  IF m.edition = "later" /\ m.fallbackSound /\ soundId # "commentary"
        THEN loadNext([SetStatus(failed, soundId, "loaded") EXCEPT
                           !.audioCache = @ \cup {soundId}],
                      chain, Tail(this.todo))
        ELSE IF MayRetry(m, this.retryCount)
        THEN [failed EXCEPT !.chains[chain].pc = "wait"]
        ELSE loadNext(failed, chain, Tail(this.todo))

\* checkFileExists and canPlayType have answered for the files of the sound
filesChecked(m, chain, found) ==
    IF found THEN [m EXCEPT !.chains[chain].pc = "audio"] ELSE loadFailed(m, chain)

\* What ends the wait for the audio element: canplaythrough (or loadeddata),
\* error, or the timer.  In lib/sounds.ts the timer rejects without removing the
\* listeners, which stay on the abandoned element.
AudioEvents == {"canplaythrough", "error", "timeout"}

audioSettled(m, chain, event) ==
    LET soundId == Head(m.chains[chain].todo)
    IN  IF event = "canplaythrough" THEN loadSucceeded(m, chain)
        ELSE IF event = "timeout" /\ m.edition = "lib"
        THEN loadFailed([m EXCEPT !.staleListeners = @ \cup {soundId}], chain)
        ELSE loadFailed(m, chain)

\* onLoad of an abandoned element of lib/sounds.ts
staleOnLoad(m, soundId) ==
    [SetStatus(m, soundId, "loaded") EXCEPT !.staleListeners = @ \ {soundId}]

\* the delay is over: loadSound(soundId, filePaths, retryCount + 1)
retryLoad(m, chain) ==
    beginLoad(m, chain, m.chains[chain].todo, m.chains[chain].retryCount + 1)

\* preloadSounds; the later edition loads its fallback sound first
preloadSounds(m, chain, fallbackLoaded) ==
    LET withFallback == IF m.edition = "later"
                        THEN [m EXCEPT !.fallbackSound = (@ \/ fallbackLoaded)]
                        ELSE m
    IN  loadNext(withFallback, chain, SoundsWithFiles(withFallback))

handleFirstInteraction(m, fallbackLoaded) ==
    preloadSounds([m EXCEPT !.userInteracted = TRUE], "interaction", fallbackLoaded)

setEnabled(m, enabled) == [m EXCEPT !.enabled = enabled]

setVolume(m, volume) ==
    [m EXCEPT !.volume = IF volume < 0 THEN 0
                         ELSE IF volume > FullVolume THEN FullVolume ELSE volume]

\* the sound a goal of the player selects
SelectedSound(m, playerName, team) ==
    LET own == IF m.edition = "lib"
               THEN PLAYER_SOUNDS(playerName)
               ELSE m.playerAssignments[playerName]
    IN  IF own # NoSound THEN own ELSE TEAM_DEFAULT_SOUNDS(m.edition, team)

\* tryFallbackSound of the later edition; lib/sounds.ts has none
tryFallbackSound(m, playOk) ==
    IF m.edition = "later" /\ m.fallbackSound /\ playOk THEN "fallback" ELSE NoSound

\* What playGoalSound makes heard: the selected sound, the fallback sound or
\* nothing.  playOk: the promise of audio.play() is fulfilled.
GoalSound(m, playerName, team, playOk) ==
    LET soundType == SelectedSound(m, playerName, team)
    IN  IF ~m.enabled THEN NoSound
        ELSE IF ~m.userInteracted THEN NoSound
        ELSE IF soundType \notin m.audioCache THEN tryFallbackSound(m, playOk)
        ELSE IF m.loadingStatus[soundType] = "error" THEN tryFallbackSound(m, playOk)
        ELSE IF m.loadingStatus[soundType] = "loading" THEN NoSound
        ELSE IF playOk THEN soundType
        ELSE tryFallbackSound(m, playOk)

\* a playGoalSound that does not look at the enabled flag
playGoalSoundAlways(m, playerName, team, playOk) ==
    [m EXCEPT !.lastPlay = GoalSound([m EXCEPT !.enabled = TRUE], playerName, team, playOk)]

\* the manager after playGoalSound; lastPlay records what was heard
playGoalSound(m, playerName, team, playOk) ==
    [m EXCEPT !.lastPlay = GoalSound(m, playerName, team, playOk)]

\* addCustomSound once the upload has answered: the entry is pushed, then loaded
addCustomSound(m) ==
    LET soundId == CustomIds[m.uploads + 1]
    IN  loadNext([m EXCEPT !.customSounds = Append(@, soundId), !.uploads = @ + 1],
                 "upload", <<soundId>>)

\* findIndex: the first index with the id, 0 for -1
FindIndex(sounds, soundId) ==
    IF \E i \in 1..Len(sounds) : sounds[i] = soundId
    THEN CHOOSE i \in 1..Len(sounds) :
             /\ sounds[i] = soundId
             /\ \A j \in 1..(i - 1) : sounds[j] # soundId
    ELSE 0

\* splice(index, 1)
Splice(sounds, index) ==
    SubSeq(sounds, 1, index - 1) \o SubSeq(sounds, index + 1, Len(sounds))

\* a removal that leaves the players' assignments alone
removeCustomSoundKeepingAssignments(m, soundId) ==
    LET index == FindIndex(m.customSounds, soundId)
    IN  IF index = 0 THEN m
        ELSE [m EXCEPT !.customSounds = Splice(@, index),
                       !.audioCache = @ \ {soundId},
                       !.loadingStatus[soundId] = NoSound,
                       !.errorDetails = @ \ {soundId}]

\* the manager after removeCustomSound, which returns FindIndex # 0
removeCustomSound(m, soundId) ==
    LET index == FindIndex(m.customSounds, soundId)
    IN  IF index = 0 THEN m
        ELSE [m EXCEPT !.customSounds = Splice(@, index),
                       !.audioCache = @ \ {soundId},
                       !.loadingStatus[soundId] = NoSound,
                       !.errorDetails = @ \ {soundId},
                       !.playerAssignments =
                           [playerName \in SoundPlayers |->
                               IF @[playerName] = soundId THEN NoSound
                               ELSE @[playerName]]]

updatePlayerAssignments(m, assignments) == [m EXCEPT !.playerAssignments = assignments]

-----------------------------------------------------------------------------
(* The service worker *)

CACHE_NAME == "football-scorer-v2"

\* the names of the caches the origin may hold when the worker is installed: the
\* cache of the version before, and a cache of this name from an earlier install
PriorCacheNames == {"football-scorer-v1", CACHE_NAME}

\* Of urlsToCache the page and the offline page; a logo that only an older
\* version cached; a request nobody cached
urlsToCache == {"/", "/offline"}
Urls == urlsToCache \cup {"/logos/old.png", "/api/players"}

Destinations == {"document", "image"}

NoRequest == [url |-> "", destination |-> "", online |-> FALSE]

NoResponse == [from |-> "none", url |-> ""]

\* The worker before its install event, with the caches earlier versions left:
\* a set of <<cache name, url>> entries
NewServiceWorker(entries) ==
    [phase |-> "parsed",
     cacheNames |-> {entry[1] : entry \in entries},
     entries |-> entries,
     request |-> NoRequest,
     response |-> NoResponse]

\* install: caches.open(CACHE_NAME), then addAll, which stores all or nothing
install(w, added) ==
    IF added
    THEN [w EXCEPT !.phase = "installed",
                   !.cacheNames = @ \cup {CACHE_NAME},
                   !.entries = @ \cup {<<CACHE_NAME, url>> : url \in urlsToCache}]
    ELSE [w EXCEPT !.phase = "redundant", !.cacheNames = @ \cup {CACHE_NAME}]

\* activate: every cache with another name is deleted
activate(w) ==
    [w EXCEPT !.phase = "activated",
              !.cacheNames = @ \cap {CACHE_NAME},
              !.entries = {entry \in @ : entry[1] = CACHE_NAME}]

\* caches.match: a response for the url in any cache of the origin
CacheMatch(w, url) == \E entry \in w.entries : entry[2] = url

\* a fetch handler that asks the network first
respondNetworkFirst(w, url, destination, online) ==
    IF online THEN [from |-> "network", url |-> url]
    ELSE IF CacheMatch(w, url) THEN [from |-> "cache", url |-> url]
    ELSE IF destination = "document" /\ CacheMatch(w, "/offline")
    THEN [from |-> "cache", url |-> "/offline"]
    ELSE NoResponse

\* what the fetch handler responds with; online: fetch(event.request) is fulfilled
respond(w, url, destination, online) ==
    IF CacheMatch(w, url) THEN [from |-> "cache", url |-> url]
    ELSE IF online THEN [from |-> "network", url |-> url]
    ELSE IF destination = "document" /\ CacheMatch(w, "/offline")
    THEN [from |-> "cache", url |-> "/offline"]
    ELSE NoResponse

onFetch(w, url, destination, online) ==
    [w EXCEPT !.request = [url |-> url, destination |-> destination, online |-> online],
              !.response = respond(w, url, destination, online)]

-----------------------------------------------------------------------------
(* The state machine of the later edition *)

Commit(n) ==
    /\ mode' = n.mode
    /\ gameActive' = n.gameActive
    /\ availablePlayers' = n.availablePlayers
    /\ playersLoading' = n.playersLoading
    /\ playerSelectDialog' = n.playerSelectDialog
    /\ yellowPlayers' = n.yellowPlayers
    /\ bluePlayers' = n.bluePlayers
    /\ yellowScore' = n.yellowScore
    /\ blueScore' = n.blueScore
    /\ actions' = n.actions
    /\ assistDialogOpen' = n.assistDialogOpen
    /\ pendingGoal' = n.pendingGoal
    /\ resetDialogOpen' = n.resetDialogOpen
    /\ started' = (started \/ n.mode = "game")
    /\ UNCHANGED <<soundManager, serviceWorker>>

InitPage ==
    /\ mode = "setup"
    /\ gameActive = FALSE
    /\ availablePlayers = <<>>
    /\ playersLoading = TRUE
    /\ playerSelectDialog = ClosedSelect
    /\ yellowPlayers = <<>>
    /\ bluePlayers = <<>>
    /\ yellowScore = 0
    /\ blueScore = 0
    /\ actions = <<>>
    /\ assistDialogOpen = FALSE
    /\ pendingGoal = NoGoal
    /\ resetDialogOpen = FALSE
    /\ clock = 0
    /\ removals = 0
    /\ started = FALSE

Init ==
    /\ InitPage
    /\ soundManager = NewSoundManager("lib", <<>>)
    /\ serviceWorker = NewServiceWorker({})

\* the effect on mount, once getPlayers has answered with players
loadPlayers(v, players) == [availablePlayers |-> players, playersLoading |-> FALSE]

\* the directory is configured and answers with the rows of its table
LoadPlayers ==
    /\ playersLoading
    /\ Commit(Apply(View, loadPlayers(View, PlayersTable)))
    /\ UNCHANGED <<clock, removals>>

LoadPlayersWithSpare ==
    /\ playersLoading
    /\ Commit(Apply(View, loadPlayers(View, PlayersTableWithSpare)))
    /\ UNCHANGED <<clock, removals>>

\* no directory is configured: the built-in list
LoadDefaultPlayers ==
    /\ playersLoading
    /\ Commit(Apply(View, loadPlayers(View, getDefaultPlayers)))
    /\ UNCHANGED <<clock, removals>>

\* What the directory provider can do to one call of getPlayers: the client is
\* configured or not; the query throws, or answers with an error, or with data
\* that is null, an empty list, one row or a table
ProviderOutcomes ==
    [configured : BOOLEAN, throws : BOOLEAN, error : BOOLEAN, hasData : BOOLEAN,
     data : {<<>>, SubSeq(getDefaultPlayers, 1, 1), PlayersTable}]

\* a getPlayers that hands on whatever list the query answered with
getPlayersAnyData(outcome) ==
    IF ~outcome.configured THEN getDefaultPlayers
    ELSE IF outcome.throws THEN getDefaultPlayers
    ELSE IF outcome.error THEN getDefaultPlayers
    ELSE IF outcome.hasData THEN outcome.data
    ELSE getDefaultPlayers

getPlayers(outcome) ==
    IF ~outcome.configured THEN getDefaultPlayers
    ELSE IF outcome.throws THEN getDefaultPlayers
    ELSE IF outcome.error THEN getDefaultPlayers
    ELSE IF outcome.hasData /\ Len(outcome.data) > 0 THEN outcome.data
    ELSE getDefaultPlayers

\* the effect on mount with whatever the provider does
LoadFromProvider ==
    /\ playersLoading
    /\ \E outcome \in ProviderOutcomes :
           Commit(Apply(View, loadPlayers(View, getPlayers(outcome))))
    /\ UNCHANGED <<clock, removals>>

\* "Dodaj Gracza" is rendered below MaxPlayers and disabled while loading or with
\* nobody left to pick
SelectButtonEnabled(v, team) ==
    /\ v.mode = "setup"
    /\ Len(Roster(v, team)) < MaxPlayers
    /\ ~v.playersLoading
    /\ Len(getAvailablePlayersForTeam(v, team)) # 0

\* the rows of the selection dialog
PickerRows(v) ==
    IF v.playersLoading THEN <<>>
    ELSE getAvailablePlayersForTeam(v, IF v.playerSelectDialog.team = NoTeam
                                       THEN "yellow" ELSE v.playerSelectDialog.team)

\* The rows explored: for yellow the first row offered with an odd id, for blue
\* the first with an even id.
RECURSIVE FirstOfParity(_, _)
FirstOfParity(rows, parity) ==
    IF rows = <<>> THEN {}
    ELSE IF Head(rows).id % 2 = parity THEN {Head(rows)}
         ELSE FirstOfParity(Tail(rows), parity)

PickedRows(v) ==
    FirstOfParity(PickerRows(v), IF v.playerSelectDialog.team = "blue" THEN 0 ELSE 1)

\* "Dodaj Gracza" of a team, then a row of the dialog
AddPlayerFromDB ==
    /\ \E team \in Teams :
           /\ SelectButtonEnabled(View, team)
           /\ LET opened == Apply(View, openPlayerSelect(View, team))
              IN  \E dbPlayer \in PickedRows(opened) :
                      Commit(Apply(opened, addPlayerFromDB(opened, dbPlayer)))
    /\ UNCHANGED <<clock, removals>>

\* The taps explored go to the first entry of a list (the first player of a
\* roster, the first name the assist dialog offers): the handlers treat every
\* entry of a list alike.
Tapped(list) == IF list = <<>> THEN {} ELSE {Head(list)}

RemovePlayer ==
    /\ mode = "setup"
    /\ removals < MaxRemovals
    /\ \E team \in Teams : \E player \in Tapped(Roster(View, team)) :
           Commit(Apply(View, removePlayer(View, team, player.id)))
    /\ removals' = removals + 1
    /\ UNCHANGED clock

StartGame ==
    /\ mode = "setup"
    /\ canStartGame(View)
    /\ Commit(Apply(View, startGame(View)))
    /\ UNCHANGED <<clock, removals>>

Konfiguracja ==
    /\ mode = "game"
    /\ Commit(Apply(View, [mode |-> "setup"]))
    /\ UNCHANGED <<clock, removals>>

\* START / PAUZA
ToggleActive ==
    /\ mode = "game"
    /\ Commit(Apply(View, [gameActive |-> ~gameActive]))
    /\ UNCHANGED <<clock, removals>>

\* ZATRZYMAJ
Stop ==
    /\ mode = "game"
    /\ Commit(Apply(View, [gameActive |-> FALSE]))
    /\ UNCHANGED <<clock, removals>>

\* the player and own-goal buttons are disabled while the game is not active
GoalButtonsEnabled(v) == v.mode = "game" /\ v.gameActive

PlayerClick ==
    /\ GoalButtonsEnabled(View)
    /\ \E team \in Teams : \E player \in Tapped(Roster(View, team)) :
           Commit(Apply(View, handlePlayerClick(View, team, player.name)))
    /\ UNCHANGED <<clock, removals>>

OwnGoal ==
    /\ GoalButtonsEnabled(View)
    /\ clock < MaxClock
    /\ \E team \in Teams : Commit(Apply(View, handleOwnGoal(View, team, clock + 1)))
    /\ clock' = clock + 1
    /\ UNCHANGED removals

\* the buttons of the assist dialog explored: "Bez asysty" and the first name
AssistTaps(v) == {NoAssistant} \cup Tapped(AssistChoices(v))

AssistDialogShown(v) == v.mode = "game" /\ v.assistDialogOpen

ConfirmGoal ==
    /\ AssistDialogShown(View)
    /\ clock < MaxClock
    /\ \E assistantName \in AssistTaps(View) :
           Commit(Apply(View, confirmGoal(View, assistantName, clock + 1)))
    /\ clock' = clock + 1
    /\ UNCHANGED removals

DismissAssist ==
    /\ AssistDialogShown(View)
    /\ Commit(Apply(View, [assistDialogOpen |-> FALSE]))
    /\ UNCHANGED <<clock, removals>>

\* COFNIJ is disabled while the log is empty
UndoButtonEnabled(v) == v.mode = "game" /\ Len(v.actions) # 0

Undo ==
    /\ UndoButtonEnabled(View)
    /\ Commit(Apply(View, undoLastAction(View)))
    /\ UNCHANGED <<clock, removals>>

\* EKSPORT: the text is downloaded, the state is left alone
ExportLog ==
    /\ mode = "game"
    /\ Commit(Apply(View, NoWrites))
    /\ UNCHANGED <<clock, removals>>

\* RESETUJ, then "Tak, resetuj mecz"
ResetMatch ==
    /\ mode = "game"
    /\ Commit(Apply(View, confirmReset(Apply(View, [resetDialogOpen |-> TRUE]))))
    /\ UNCHANGED <<clock, removals>>

Next ==
    \/ LoadPlayers
    \/ AddPlayerFromDB
    \/ RemovePlayer
    \/ StartGame
    \/ Konfiguracja
    \/ ToggleActive
    \/ Stop
    \/ PlayerClick
    \/ OwnGoal
    \/ ConfirmGoal
    \/ DismissAssist
    \/ Undo
    \/ ExportLog
    \/ ResetMatch

Spec == Init /\ [][Next]_vars

\* the page with the longer table
NextSpare ==
    \/ LoadPlayersWithSpare
    \/ AddPlayerFromDB
    \/ RemovePlayer
    \/ StartGame
    \/ Konfiguracja
    \/ ToggleActive
    \/ Stop
    \/ PlayerClick
    \/ OwnGoal
    \/ ConfirmGoal
    \/ DismissAssist
    \/ Undo
    \/ ExportLog
    \/ ResetMatch

SpecSpare == Init /\ [][NextSpare]_vars

\* the setup screen alone, with the built-in directory
NextSetup ==
    \/ LoadDefaultPlayers
    \/ AddPlayerFromDB
    \/ RemovePlayer
    \/ StartGame
    \/ Konfiguracja

SpecSetup == Init /\ [][NextSetup]_vars

\* the setup screen with every outcome of the directory provider
NextDirectory ==
    \/ LoadFromProvider
    \/ AddPlayerFromDB
    \/ RemovePlayer
    \/ StartGame
    \/ Konfiguracja

SpecDirectory == Init /\ [][NextDirectory]_vars

\* Date.now() as a browser reads it that rounds the time to two milliseconds:
\* the readings one millisecond apart fall two by two into the same tick
CoarseNow(reading) == (reading + 1) \div 2

OwnGoalCoarse ==
    /\ GoalButtonsEnabled(View)
    /\ clock < MaxClock
    /\ \E team \in Teams :
           Commit(Apply(View, handleOwnGoal(View, team, CoarseNow(clock + 1))))
    /\ clock' = clock + 1
    /\ UNCHANGED removals

ConfirmGoalCoarse ==
    /\ AssistDialogShown(View)
    /\ clock < MaxClock
    /\ \E assistantName \in AssistTaps(View) :
           Commit(Apply(View, confirmGoal(View, assistantName,
                                          CoarseNow(clock + 1))))
    /\ clock' = clock + 1
    /\ UNCHANGED removals

\* the page under the coarse clock
NextCoarse ==
    \/ LoadPlayers
    \/ AddPlayerFromDB
    \/ RemovePlayer
    \/ StartGame
    \/ Konfiguracja
    \/ ToggleActive
    \/ Stop
    \/ PlayerClick
    \/ OwnGoalCoarse
    \/ ConfirmGoalCoarse
    \/ DismissAssist
    \/ Undo
    \/ ExportLog
    \/ ResetMatch

SpecCoarse == Init /\ [][NextCoarse]_vars

-----------------------------------------------------------------------------
(* The sound manager as a state machine *)

SoundStep(m) ==
    /\ soundManager' = m
    /\ UNCHANGED <<pageVars, serviceWorker>>

\* the first click, touch or key press on the document
FirstInteraction ==
    /\ ~soundManager.userInteracted
    /\ \E fallbackLoaded \in BOOLEAN :
           SoundStep(handleFirstInteraction(soundManager, fallbackLoaded))

\* previewSound before the document has seen an interaction: it only preloads
PreviewBeforeInteraction ==
    /\ ~soundManager.userInteracted
    /\ soundManager.chains["preview"].pc = "idle"
    /\ \E fallbackLoaded \in BOOLEAN :
           SoundStep(preloadSounds(soundManager, "preview", fallbackLoaded))

FilesChecked ==
    \E chain \in LoadChains :
        /\ soundManager.chains[chain].pc = "check"
        /\ \E found \in BOOLEAN : SoundStep(filesChecked(soundManager, chain, found))

AudioSettled ==
    \E chain \in LoadChains :
        /\ soundManager.chains[chain].pc = "audio"
        /\ \E event \in AudioEvents : SoundStep(audioSettled(soundManager, chain, event))

RetryDelayOver ==
    \E chain \in LoadChains :
        /\ soundManager.chains[chain].pc = "wait"
        /\ SoundStep(retryLoad(soundManager, chain))

StaleOnLoad ==
    \E soundId \in soundManager.staleListeners :
        SoundStep(staleOnLoad(soundManager, soundId))

\* every step of a call of loadSound in flight
LoadSteps == FilesChecked \/ AudioSettled \/ RetryDelayOver

SetEnabled == \E enabled \in BOOLEAN : SoundStep(setEnabled(soundManager, enabled))

\* the slider, and a value beyond its end
SetVolume == \E volume \in {0, FullVolume + DefaultVolume} :
                 SoundStep(setVolume(soundManager, volume))

PlayGoalSound ==
    \E playerName \in SoundPlayers : \E team \in Teams : \E playOk \in BOOLEAN :
        SoundStep(playGoalSound(soundManager, playerName, team, playOk))

\* the file input of the settings dialog; nothing changes when the upload fails
AddCustomSound ==
    /\ soundManager.edition = "later"
    /\ soundManager.userInteracted
    /\ soundManager.uploads < Len(CustomIds)
    /\ soundManager.chains["upload"].pc \in {"idle", "done"}
    /\ \E uploaded \in BOOLEAN :
           SoundStep(IF uploaded THEN addCustomSound(soundManager) ELSE soundManager)

\* the bin button of the settings dialog, or a call with an id nobody holds
RemoveCustomSound ==
    /\ soundManager.edition = "later"
    /\ \E soundId \in Range(CustomIds) :
           SoundStep(removeCustomSound(soundManager, soundId))

\* the select of a player in the settings dialog
AssignSound ==
    /\ soundManager.edition = "later"
    /\ \E playerName \in SoundPlayers :
       \E soundId \in Range(soundManager.customSounds) \cup {"horn"} :
           SoundStep(updatePlayerAssignments(soundManager,
               [soundManager.playerAssignments EXCEPT ![playerName] = soundId]))

\* loading alone, in both editions
InitLoad ==
    /\ InitPage
    /\ \E edition \in Editions :
       \E stored \in IF edition = "lib" THEN {<<>>} ELSE {<<>>, SubSeq(CustomIds, 1, 1)} :
           soundManager = NewSoundManager(edition, stored)
    /\ serviceWorker = NewServiceWorker({})

NextLoad ==
    \/ FirstInteraction
    \/ PreviewBeforeInteraction
    \/ FilesChecked
    \/ AudioSettled
    \/ RetryDelayOver
    \/ StaleOnLoad

SpecLoad == InitLoad /\ [][NextLoad]_vars

\* every await of loadSound is bounded by a timer (the abort of the probe, the
\* timeout of the audio element, the delay before a retry), and the event loop
\* runs the continuation: a call in flight takes its next step
FairSpecLoad == SpecLoad /\ WF_vars(LoadSteps)

\* lib/sounds.ts with its switches and the goal sound
NextPlay ==
    \/ FirstInteraction
    \/ PreviewBeforeInteraction
    \/ FilesChecked
    \/ AudioSettled
    \/ RetryDelayOver
    \/ StaleOnLoad
    \/ SetEnabled
    \/ SetVolume
    \/ PlayGoalSound

SpecPlay == Init /\ [][NextPlay]_vars

\* the later edition with its custom sounds
InitCustom ==
    /\ InitPage
    /\ \E stored \in {<<>>, SubSeq(CustomIds, 1, 1)} :
           soundManager = NewSoundManager("later", stored)
    /\ serviceWorker = NewServiceWorker({})

NextCustom ==
    \/ FirstInteraction
    \/ FilesChecked
    \/ AudioSettled
    \/ RetryDelayOver
    \/ AddCustomSound
    \/ RemoveCustomSound
    \/ AssignSound

SpecCustom == InitCustom /\ [][NextCustom]_vars

-----------------------------------------------------------------------------
(* The service worker as a state machine *)

WorkerStep(w) ==
    /\ serviceWorker' = w
    /\ UNCHANGED <<pageVars, soundManager>>

Install ==
    /\ serviceWorker.phase = "parsed"
    /\ \E added \in BOOLEAN : WorkerStep(install(serviceWorker, added))

\* skipWaiting: the installed worker is activated at once
Activate ==
    /\ serviceWorker.phase = "installed"
    /\ WorkerStep(activate(serviceWorker))

Fetch ==
    /\ serviceWorker.phase = "activated"
    /\ \E url \in Urls : \E destination \in Destinations : \E online \in BOOLEAN :
           WorkerStep(onFetch(serviceWorker, url, destination, online))

InitWorker ==
    /\ InitPage
    /\ soundManager = NewSoundManager("lib", <<>>)
    /\ \E entries \in SUBSET (PriorCacheNames \X Urls) :
           serviceWorker = NewServiceWorker(entries)

NextWorker == Install \/ Activate \/ Fetch

SpecWorker == InitWorker /\ [][NextWorker]_vars

-----------------------------------------------------------------------------
(* Two taps handled against one rendered view *)

\* the buttons of the game screen that write the log, as rendered in v
EnabledTaps(v) ==
    {[kind |-> "own_goal", team |-> team, assistant |-> NoAssistant] :
        team \in IF GoalButtonsEnabled(v) THEN Teams ELSE {}}
    \cup {[kind |-> "goal", team |-> NoTeam, assistant |-> assistantName] :
            assistantName \in IF AssistDialogShown(v) THEN AssistTaps(v) ELSE {}}
    \cup {[kind |-> "undo", team |-> NoTeam, assistant |-> NoAssistant] :
            dummy \in IF UndoButtonEnabled(v) THEN {0} ELSE {}}

\* the writes of the handler behind a button, run in view v at clock value now
TapWrites(v, tap, now) ==
    CASE tap.kind = "own_goal" -> handleOwnGoal(v, tap.team, now)
      [] tap.kind = "goal" -> confirmGoal(v, tap.assistant, now)
      [] tap.kind = "undo" -> undoLastAction(v)

\* both handlers are closures of the view v: the second does not see what the
\* first has set, and what it sets replaces it
Batched(v, first, second, now) ==
    Apply(Apply(v, TapWrites(v, first, now)), TapWrites(v, second, now + 1))

\* the second handler belongs to the render that follows the first
OneAfterTheOther(v, first, firstNow, second, secondNow) ==
    LET between == Apply(v, TapWrites(v, first, firstNow))
    IN  Apply(between, TapWrites(between, second, secondNow))

ReadsClock(tap) == IF tap.kind = "undo" THEN 0 ELSE 1

RapidTaps ==
    /\ \E first, second \in EnabledTaps(View) :
           /\ clock + ReadsClock(first) + ReadsClock(second) <= MaxClock
           /\ Commit(Batched(View, first, second, clock + 1))
           /\ clock' = clock + ReadsClock(first) + ReadsClock(second)
    /\ UNCHANGED removals

NextTaps ==
    \/ Next
    \/ RapidTaps

SpecTaps == Init /\ [][NextTaps]_vars

-----------------------------------------------------------------------------
(* The earlier edition: default players, "Gracz n", names typed in place *)

DefaultYellowPlayers ==
    << [id |-> <<"y", 1>>, name |-> "Przemek W.", goals |-> 0, assists |-> 0],
       [id |-> <<"y", 2>>, name |-> "Tomek L.", goals |-> 0, assists |-> 0],
       [id |-> <<"y", 3>>, name |-> "Lukasz J.", goals |-> 0, assists |-> 0],
       [id |-> <<"y", 4>>, name |-> "Marek Z.", goals |-> 0, assists |-> 0],
       [id |-> <<"y", 5>>, name |-> "Pawel L.", goals |-> 0, assists |-> 0] >>

DefaultBluePlayers ==
    << [id |-> <<"b", 1>>, name |-> "Krystian G.", goals |-> 0, assists |-> 0],
       [id |-> <<"b", 2>>, name |-> "Marcin P.", goals |-> 0, assists |-> 0],
       [id |-> <<"b", 3>>, name |-> "Adam T.", goals |-> 0, assists |-> 0],
       [id |-> <<"b", 4>>, name |-> "Michal G.", goals |-> 0, assists |-> 0],
       [id |-> <<"b", 5>>, name |-> "Konrad L.", goals |-> 0, assists |-> 0] >>

\* `Gracz ${n}`
GraczName(n) ==
    << "Gracz 1", "Gracz 2", "Gracz 3", "Gracz 4",
       "Gracz 5", "Gracz 6", "Gracz 7", "Gracz 8" >>[n]

\* name.trim() leaves the names passed here as they are; it empties a blank one
addPlayer(v, team, name, now) ==
    IF name = "" THEN NoWrites
    ELSE LET newPlayer == [id |-> <<"t", now>>, name |-> name, goals |-> 0, assists |-> 0]
         IN  IF Len(Roster(v, team)) < MaxPlayers
             THEN SetRoster(team, Append(Roster(v, team), newPlayer))
             ELSE NoWrites

\* onChange of a player's name field
renamePlayer(v, team, playerId, value) ==
    LET players == Roster(v, team)
    IN  SetRoster(team, [i \in 1..Len(players) |->
                            IF players[i].id = playerId
                            THEN [players[i] EXCEPT !.name = value]
                            ELSE players[i]])

InitV1 ==
    /\ mode = "setup"
    /\ gameActive = FALSE
    /\ availablePlayers = <<>>
    /\ playersLoading = FALSE
    /\ playerSelectDialog = ClosedSelect
    /\ yellowPlayers = DefaultYellowPlayers
    /\ bluePlayers = DefaultBluePlayers
    /\ yellowScore = 0
    /\ blueScore = 0
    /\ actions = <<>>
    /\ assistDialogOpen = FALSE
    /\ pendingGoal = NoGoal
    /\ resetDialogOpen = FALSE
    /\ clock = 0
    /\ removals = 0
    /\ started = FALSE
    /\ soundManager = NewSoundManager("lib", <<>>)
    /\ serviceWorker = NewServiceWorker({})

\* "+ Dodaj Gracza" is rendered below MaxPlayers
AddPlayer ==
    /\ mode = "setup"
    /\ clock < MaxClock
    /\ \E team \in Teams :
           /\ Len(Roster(View, team)) < MaxPlayers
           /\ Commit(Apply(View, addPlayer(View, team,
                                           GraczName(Len(Roster(View, team)) + 1),
                                           clock + 1)))
    /\ clock' = clock + 1
    /\ UNCHANGED removals

\* the name typed that is explored: the name of the player next in the list
Typed(players) == IF Len(players) < 2 THEN {} ELSE {players[2].name}

RenamePlayer ==
    /\ mode = "setup"
    /\ \E team \in Teams : \E player \in Tapped(Roster(View, team)) :
           \E value \in Typed(Roster(View, team)) :
               Commit(Apply(View, renamePlayer(View, team, player.id, value)))
    /\ UNCHANGED <<clock, removals>>

NextV1 ==
    \/ AddPlayer
    \/ RenamePlayer
    \/ RemovePlayer
    \/ StartGame
    \/ Konfiguracja
    \/ ToggleActive
    \/ Stop
    \/ PlayerClick
    \/ OwnGoal
    \/ ConfirmGoal
    \/ DismissAssist
    \/ Undo
    \/ ExportLog
    \/ ResetMatch

SpecV1 == InitV1 /\ [][NextV1]_vars

-----------------------------------------------------------------------------
(* Claims *)

RECURSIVE CountTeam(_, _)
CountTeam(log, team) ==
    IF log = <<>> THEN 0
    ELSE (IF Head(log).team = team THEN 1 ELSE 0) + CountTeam(Tail(log), team)

\* C1: in every reachable state of the page used one command at a time, each
\* team's score is the number of log entries (goals and own goals) of that team.
ScoreLogConsistency ==
    /\ yellowScore = CountTeam(actions, "yellow")
    /\ blueScore = CountTeam(actions, "blue")

\* two recordings were made, one of them was taken back, a blue entry is left
ScoreLogWitness ==
    /\ clock = 2
    /\ Len(actions) = 1
    /\ actions[1].team = "blue"
    /\ actions[1].id = 2
    /\ blueScore = 1

\* what the undo claims compare: scores, rosters with their counters, the log
Core(v) == <<v.yellowScore, v.blueScore, v.yellowPlayers, v.bluePlayers, v.actions>>

\* the views after one recording made in v and read at clock value now: an own
\* goal, or a tap on a player followed by a button of the assist dialog
Recorded(v, now) ==
    {Apply(v, handleOwnGoal(v, team, now)) : team \in Teams}
    \cup UNION {
        LET clicked == Apply(v, handlePlayerClick(v, tap[1], tap[2].name))
        IN  {Apply(clicked, confirmGoal(clicked, assistantName, now)) :
                assistantName \in AssistTaps(clicked)}
        : tap \in UNION {{<<team, player>> : player \in Tapped(Roster(v, team))} :
                            team \in Teams} }

RECURSIVE Undone(_, _)
Undone(v, n) == IF n = 0 THEN v ELSE Undone(Apply(v, undoLastAction(v)), n - 1)

RECURSIVE UndoRestores(_, _, _)
UndoRestores(base, v, n) ==
    /\ Core(Undone(v, n)) = Core(base)
    /\ clock + n < MaxClock =>
           \A next \in Recorded(v, clock + n + 1) : UndoRestores(base, next, n + 1)

\* C2: from every reachable active state, any N recordings the run can still make,
\* followed by N undos, give back both scores, every player's goals and assists
\* and the action log.
UndoIsExactInverse ==
    (mode = "game" /\ gameActive) => UndoRestores(View, View, 0)

\* an active state with a goal and its assist in the log and a recording still
\* to be made
UndoInverseWitness ==
    /\ mode = "game" /\ gameActive
    /\ clock < MaxClock
    /\ Len(actions) = 1
    /\ actions[1].type = "goal"
    /\ actions[1].assistant # NoAssistant


\* C3: two taps handled against the same rendered view leave the scores, the
\* counters and the log as running the two handlers one after the other, in one
\* of the two orders, would.
RapidTapsSerializable ==
    \A first, second \in EnabledTaps(View) :
        Core(Batched(View, first, second, clock + 1))
            \in { Core(OneAfterTheOther(View, first, clock + 1, second, clock + 2)),
                  Core(OneAfterTheOther(View, second, clock + 2, first, clock + 1)) }

\* a step of a recording command: own goal, or a button of the assist dialog
IsRecording == mode = "game" /\ clock' # clock

\* C4: a recording command taken while the match is not active leaves the log,
\* both scores and every counter as they were.
RecordingOnlyWhileActive ==
    [][(~gameActive /\ IsRecording) => Core(View') = Core(View)]_vars

InRange(players) == Len(players) >= MinPlayers /\ Len(players) <= MaxPlayers

\* the view after a tap on ROZPOCZNIJ GRE, which does nothing while disabled
StartPressed(v) == IF canStartGame(v) THEN Apply(v, startGame(v)) ELSE v

\* C5: on the setup screen, starting leaves the phase at setup whenever a roster
\* has fewer than 5 or more than 8 players and moves it to the game when both
\* have between 5 and 8.
RosterGating ==
    mode = "setup" =>
        StartPressed(View).mode =
            IF InRange(yellowPlayers) /\ InRange(bluePlayers) THEN "game" ELSE "setup"

\* the match was started with eight players a side
RosterGatingWitness ==
    /\ mode = "game"
    /\ Len(yellowPlayers) = MaxPlayers
    /\ Len(bluePlayers) = MaxPlayers

Distinct(players) ==
    \A i, j \in 1..Len(players) : i # j => players[i].name # players[j].name

\* C6: in every reachable state the names within the yellow roster are pairwise
\* distinct, and likewise within the blue roster.
NoDuplicateNames == Distinct(yellowPlayers) /\ Distinct(bluePlayers)

\* the step has appended a goal entry to the log
GoalAppended ==
    /\ Len(actions') = Len(actions) + 1
    /\ actions'[Len(actions')].type = "goal"

Other(team) == IF team = "yellow" THEN "blue" ELSE "yellow"

\* players with one goal more for the player at i and, when j is not 0, one
\* assist more for the player at j
Credited(players, i, j) ==
    [k \in 1..Len(players) |->
        IF k = i THEN [players[k] EXCEPT !.goals = @ + 1]
        ELSE IF k = j THEN [players[k] EXCEPT !.assists = @ + 1]
             ELSE players[k]]

\* C7: a step that records a goal of team T by a player S of its roster, assisted
\* by a player A of it or by nobody, adds one goal to S and one assist to A,
\* leaves every other player of both rosters as they were, adds one to T's score
\* only and appends one log entry naming S and A.
StatAttribution ==
    [][ LET entry == actions'[Len(actions')]
            players == Roster(View, entry.team)
        IN  ( /\ GoalAppended
              /\ entry.scorer \in Names(players)
              /\ entry.assistant # NoAssistant => entry.assistant \in Names(players) )
            => /\ actions' = Append(actions, entry)
               /\ entry.team = pendingGoal.team /\ entry.scorer = pendingGoal.scorer
               /\ Score(View', entry.team) = Score(View, entry.team) + 1
               /\ Score(View', Other(entry.team)) = Score(View, Other(entry.team))
               /\ Roster(View', Other(entry.team)) = Roster(View, Other(entry.team))
               /\ \E i \in 1..Len(players) :
                      /\ players[i].name = entry.scorer
                      /\ \E j \in IF entry.assistant = NoAssistant THEN {0}
                                  ELSE {k \in 1..Len(players) :
                                            k # i /\ players[k].name = entry.assistant} :
                             Roster(View', entry.team) = Credited(players, i, j)
      ]_vars

\* C8: in every reachable state in which COFNIJ can be tapped, the score of the
\* team of the last entry is at least 1 and, for a goal, the scorer's goals and
\* the assistant's assists are at least 1.
UndoNeverClamps ==
    UndoButtonEnabled(View) =>
        LET lastAction == actions[Len(actions)]
            players == Roster(View, lastAction.team)
        IN  /\ Score(View, lastAction.team) >= 1
            /\ lastAction.type = "goal" =>
                   \A i \in 1..Len(players) :
                       /\ players[i].name = lastAction.scorer => players[i].goals >= 1
                       /\ ( /\ lastAction.assistant # NoAssistant
                            /\ players[i].name = lastAction.assistant
                            /\ players[i].name # lastAction.scorer )
                          => players[i].assists >= 1

\* C9: a recording appends one entry at the end of the log; any other step leaves
\* the log as it is, takes off its last entry or empties it.
LogIsStack ==
    [][ IF IsRecording
        THEN /\ Len(actions') = Len(actions) + 1
             /\ SubSeq(actions', 1, Len(actions)) = actions
             /\ actions'[Len(actions')].id = clock'
        ELSE \/ actions' = actions
             \/ actions # <<>> /\ actions' = SubSeq(actions, 1, Len(actions) - 1)
             \/ actions' = <<>>
      ]_vars

\* two entries were logged and the later one was taken back
LogIsStackWitness ==
    /\ clock = 2
    /\ Len(actions) = 1
    /\ actions[1].id = 1

\* C10: a step that appends a goal entry names a scorer of the credited team's
\* roster and, when it names an assistant, another player of that roster.
GoalEntriesValid ==
    [][ GoalAppended =>
            LET entry == actions'[Len(actions')]
                names == Names(Roster(View, entry.team))
            IN  /\ entry.scorer \in names
                /\ entry.assistant # NoAssistant =>
                       entry.assistant \in names \ {entry.scorer}
      ]_vars


\* who is in a roster, in order, whatever the counters
Members(players) == [i \in 1..Len(players) |-> [id |-> players[i].id, name |-> players[i].name]]

AllZero(players) == \A i \in 1..Len(players) : players[i].goals = 0 /\ players[i].assists = 0

\* what the reset claims require of the state after a reset of v
IsResetOf(after, v) ==
    /\ after.yellowScore = 0 /\ after.blueScore = 0
    /\ after.actions = <<>>
    /\ after.mode = "setup"
    /\ AllZero(after.yellowPlayers) /\ AllZero(after.bluePlayers)
    /\ Members(after.yellowPlayers) = Members(v.yellowPlayers)
    /\ Members(after.bluePlayers) = Members(v.bluePlayers)

\* C11: after confirmReset both scores are 0, the log is empty, the phase is
\* setup, every counter is 0 and both rosters hold the same players in the same
\* order.
ResetEffect ==
    mode = "game" => IsResetOf(Apply(View, confirmReset(View)), View)

\* C12: the phase leaves setup only by a start with both rosters ready, and
\* leaves the game only by a reset; no other step changes it.
PhaseStateMachine ==
    [][ mode' # mode =>
            \/ mode = "setup" /\ mode' = "game" /\ canStartGame(View)
            \/ /\ mode = "game" /\ mode' = "setup"
               /\ Core(View') = Core(Apply(View, confirmReset(View)))
      ]_vars

Ids(players) == {players[i].id : i \in 1..Len(players)}

\* the step has taken a player out of a roster
PlayerRemoved ==
    \E team \in Teams : ~(Ids(Roster(View, team)) \subseteq Ids(Roster(View', team)))

\* the step has changed the goals or the assists of a player it has kept
CountersChanged ==
    \E team \in Teams :
        \E i \in 1..Len(Roster(View, team)) : \E j \in 1..Len(Roster(View', team)) :
            /\ Roster(View, team)[i].id = Roster(View', team)[j].id
            /\ \/ Roster(View, team)[i].goals # Roster(View', team)[j].goals
               \/ Roster(View, team)[i].assists # Roster(View', team)[j].assists

\* C13: a step changes the goals or assists of a player only when it records a
\* goal, undoes one or resets, and no step removes a player once the match has
\* been started.
PlayerLifecycle ==
    [][ /\ CountersChanged =>
               \/ Len(actions') # Len(actions)
               \/ Core(View') = Core(Apply(View, confirmReset(View)))
        /\ PlayerRemoved => ~started
      ]_vars

\* what a rejected command must leave alone
Frame(v) == <<Core(v), v.mode>>

\* C14: a command that is to be rejected leaves rosters, scores, counters, log
\* and phase as they were: undo on an empty log, an add to a roster of 8, an add
\* of a name the roster has, a start with a roster not ready, a recording
\* (own goal, scorer tap, assist dialog button) while not active.
FailureSemantics ==
    /\ actions = <<>> => Frame(Apply(View, undoLastAction(View))) = Frame(View)
    /\ \A team \in Teams : \A dbPlayer \in Range(availablePlayers) :
           LET opened == Apply(View, openPlayerSelect(View, team))
           IN  \/ Len(Roster(View, team)) = MaxPlayers
               \/ dbPlayer.name \in Names(Roster(View, team))
               => Frame(Apply(opened, addPlayerFromDB(opened, dbPlayer))) = Frame(View)
    /\ ~(InRange(yellowPlayers) /\ InRange(bluePlayers)) =>
           Frame(StartPressed(View)) = Frame(View)
    /\ ~gameActive =>
           /\ \A team \in Teams :
                  /\ Frame(Apply(View, handleOwnGoal(View, team, clock + 1))) = Frame(View)
                  /\ \A player \in Range(Roster(View, team)) :
                         Apply(View, handlePlayerClick(View, team, player.name)) = View
           /\ AssistDialogShown(View) =>
                  \A assistantName \in {NoAssistant} \cup Range(AssistChoices(View)) :
                      Frame(Apply(View, confirmGoal(View, assistantName, clock + 1)))
                          = Frame(View)

\* the step has appended an own-goal entry to the log
OwnGoalAppended ==
    /\ Len(actions') = Len(actions) + 1
    /\ actions'[Len(actions')].type = "own_goal"

\* C15: a step that records an own goal of team T is taken while active, appends
\* one entry of team T with the sentinel scorer and no assistant, adds one to
\* T's score, leaves the other score and every player's counters as they were.
OwnGoalEffect ==
    [][ OwnGoalAppended =>
            LET entry == actions'[Len(actions')]
            IN  /\ gameActive
                /\ actions' = Append(actions, entry)
                /\ entry.scorer = OWN_GOAL_SENTINEL
                /\ entry.assistant = NoAssistant
                /\ Score(View', entry.team) = Score(View, entry.team) + 1
                /\ Score(View', Other(entry.team)) = Score(View, Other(entry.team))
                /\ yellowPlayers' = yellowPlayers
                /\ bluePlayers' = bluePlayers
      ]_vars

\* an own goal of blue was recorded after a goal
OwnGoalWitness ==
    /\ Len(actions) = 2
    /\ actions[1].type = "goal"
    /\ actions[2].type = "own_goal" /\ actions[2].team = "blue"
    /\ blueScore = 1

\* C16: a reset after a reset gives the state the one reset gave: scores 0, log
\* empty, phase setup, counters zero, the same players.
ResetIdempotent ==
    mode = "game" =>
        LET once == Apply(View, confirmReset(View))
            twice == Apply(once, confirmReset(once))
        IN  twice = once /\ IsResetOf(twice, View)


\* a goal recorded in v: the tap on the scorer, then the button of the dialog
GoalRecorded(v, team, scorer, assistantName, now) ==
    LET clicked == Apply(v, handlePlayerClick(v, team, scorer))
    IN  Apply(clicked, confirmGoal(clicked, assistantName, now))

IsOwnGoalLine(line) == line.text[1] = " - Samoboj ("

IsGoalLine(line) == line.text[1] = " - Gol: "

HasAssist(line) == ", Asysta: " \in Range(line.text)

\* the setup screen of a match not yet played, five players a side
ReadyToStart(v) ==
    /\ v.mode = "setup" /\ ~v.gameActive
    /\ Len(v.yellowPlayers) = MinPlayers /\ Len(v.bluePlayers) = MinPlayers
    /\ v.actions = <<>> /\ v.yellowScore = 0 /\ v.blueScore = 0
    /\ AllZero(v.yellowPlayers) /\ AllZero(v.bluePlayers)

\* C17: from five players a side: start (ROZPOCZNIJ GRE, START), a yellow goal by
\* P1 assisted by P2, a blue own goal, undo, a blue goal by P6 without assist.
\* After the undo the own-goal entry is gone and the score is 1:0, after the last
\* goal it is 1:1, and the export has one goal line with an assist and no
\* own-goal line.
EndToEndScenario ==
    ReadyToStart(View) =>
        LET on == Apply(StartPressed(View), [gameActive |-> TRUE])
            goal == GoalRecorded(on, "yellow", yellowPlayers[1].name,
                                 yellowPlayers[2].name, clock + 1)
            own == Apply(goal, handleOwnGoal(goal, "blue", clock + 2))
            undone == Apply(own, undoLastAction(own))
            last == GoalRecorded(undone, "blue", bluePlayers[1].name, NoAssistant,
                                 clock + 3)
            lines == exportLog(last, clock + 3).events
        IN  /\ on.mode = "game"
            /\ Len(own.actions) = 2 /\ own.actions[2].type = "own_goal"
            /\ \A i \in 1..Len(undone.actions) : undone.actions[i].type # "own_goal"
            /\ undone.yellowScore = 1 /\ undone.blueScore = 0
            /\ last.yellowScore = 1 /\ last.blueScore = 1
            /\ Cardinality({i \in 1..Len(lines) : IsGoalLine(lines[i]) /\ HasAssist(lines[i])}) = 1
            /\ Cardinality({i \in 1..Len(lines) : IsOwnGoalLine(lines[i])}) = 0

\* the scenario as far as the run goes: the goal with its assist is in the log,
\* the own goal that followed it has been taken back
EndToEndWitness ==
    /\ mode = "game" /\ gameActive
    /\ Len(yellowPlayers) = MinPlayers /\ Len(bluePlayers) = MinPlayers
    /\ clock = 2
    /\ Len(actions) = 1
    /\ actions[1].type = "goal" /\ actions[1].team = "yellow" /\ actions[1].id = 1
    /\ actions[1].scorer = yellowPlayers[1].name
    /\ actions[1].assistant = yellowPlayers[2].name
    /\ yellowScore = 1 /\ blueScore = 0

\* C18: the export is computed from the state and sets nothing; its header shows
\* both scores; its events section has one line per log entry, in the order of
\* the log: a goal line with scorer and team and with the assist exactly when
\* the entry has an assistant, an own-goal line with the team only.
ExportEvents ==
    mode = "game" =>
        LET doc == exportLog(View, clock)
        IN  /\ doc.yellowScore = yellowScore /\ doc.blueScore = blueScore
            /\ Len(doc.events) = Len(actions)
            /\ \A i \in 1..Len(actions) :
                   LET line == doc.events[i]
                       entry == actions[i]
                   IN  /\ line.timestamp = entry.timestamp
                       /\ TeamLabel(entry.team) \in Range(line.text)
                       /\ IF entry.type = "goal"
                          THEN /\ IsGoalLine(line)
                               /\ line.text[2] = entry.scorer
                               /\ HasAssist(line) <=> entry.assistant # NoAssistant
                               /\ HasAssist(line) => line.text[Len(line.text)] = entry.assistant
                          ELSE /\ IsOwnGoalLine(line)
                               /\ Len(line.text) = 3

\* a log with a goal with an assist, then an own goal
ExportEventsWitness ==
    /\ mode = "game"
    /\ Len(actions) = 2
    /\ actions[1].type = "goal" /\ actions[1].assistant # NoAssistant
    /\ actions[2].type = "own_goal"

\* the players of both rosters who have a goal or an assist, with their team
Listed(v) ==
    {[name |-> p.name, team |-> TeamLabel(team), goals |-> p.goals, assists |-> p.assists] :
        <<team, p>> \in {tp \in UNION {{<<t, q>> : q \in Range(Roster(v, t))} : t \in Teams} :
                            tp[2].goals > 0 \/ tp[2].assists > 0}}

\* C19: the statistics section lists the players of both rosters with a goal or
\* an assist, each once, by goals descending and then assists descending, with
\* "gol" / "asysta" for a count of 1 and "gole" / "asysty" for any other.
ExportStats ==
    mode = "game" =>
        LET stats == exportLog(View, clock).stats
        IN  /\ {[name |-> l.name, team |-> l.team, goals |-> l.goals, assists |-> l.assists] :
                    l \in Range(stats)} = Listed(View)
            /\ Len(stats) = Len(WithStats(yellowPlayers)) + Len(WithStats(bluePlayers))
            /\ \A i \in 1..Len(stats) : \A j \in 1..Len(stats) :
                   i < j => \/ stats[i].goals > stats[j].goals
                            \/ /\ stats[i].goals = stats[j].goals
                               /\ stats[i].assists >= stats[j].assists
            /\ \A i \in 1..Len(stats) :
                   /\ stats[i].goalsWord = "gol" <=> stats[i].goals = 1
                   /\ stats[i].goalsWord = "gole" <=> stats[i].goals # 1
                   /\ stats[i].assistsWord = "asysta" <=> stats[i].assists = 1
                   /\ stats[i].assistsWord = "asysty" <=> stats[i].assists # 1

\* a blue scorer is listed ahead of a yellow player who has an assist only
ExportStatsWitness ==
    /\ mode = "game"
    /\ \E i \in 1..Len(yellowPlayers) : \E j \in 1..Len(bluePlayers) :
           /\ yellowPlayers[i].goals = 0 /\ yellowPlayers[i].assists = 1
           /\ bluePlayers[j].goals = 1


\* C20: each roster has at most 8 players; picking a row for a team either
\* appends that player with no goals and no assists at the end of the team's
\* roster, the players before and the other roster as they were, or, for a
\* roster of 8, changes no roster.
RosterSizeAndInsertion ==
    /\ Len(yellowPlayers) <= MaxPlayers /\ Len(bluePlayers) <= MaxPlayers
    /\ \A team \in Teams : \A dbPlayer \in Range(getAvailablePlayersForTeam(View, team)) :
           LET opened == Apply(View, openPlayerSelect(View, team))
               after == Apply(opened, addPlayerFromDB(opened, dbPlayer))
               before == Roster(View, team)
               players == Roster(after, team)
           IN  /\ Roster(after, Other(team)) = Roster(View, Other(team))
               /\ IF Len(before) = MaxPlayers
                  THEN players = before
                  ELSE /\ Len(players) = Len(before) + 1
                       /\ SubSeq(players, 1, Len(before)) = before
                       /\ players[Len(players)].name = dbPlayer.name
                       /\ players[Len(players)].goals = 0
                       /\ players[Len(players)].assists = 0

\* a roster is full on the setup screen while names are left to pick
RosterSizeWitness ==
    /\ mode = "setup"
    /\ Len(yellowPlayers) = MaxPlayers
    /\ Len(getAvailablePlayersForTeam(View, "yellow")) > 0

-----------------------------------------------------------------------------
\* C21: the ids of the log are unique and creation-ordered: an entry appended
\* later has a strictly greater id than every earlier entry, also when two
\* actions are recorded within the same tick of the clock.
UniqueOrderedIds ==
    \A i \in 1..Len(actions) : \A j \in 1..Len(actions) :
        i < j => actions[i].id < actions[j].id

\* C22: starting the match resets nothing: a step from setup to game leaves both
\* scores, the log, both rosters and every counter as they were, also when the
\* game is entered again after KONFIGURACJA with a log that is not empty.
StartResetsNothing ==
    [][(mode = "setup" /\ mode' = "game") => Core(View') = Core(View)]_vars

\* the game entered again with the log kept: the scorer of the first entry was
\* removed and added again on the setup screen in between
StartAgainWitness ==
    /\ mode = "game"
    /\ removals > 0
    /\ Len(actions) >= 1
    /\ actions[1].type = "goal"
    /\ \E player \in Range(Roster(View, actions[1].team)) :
           player.name = actions[1].scorer /\ player.goals = 0

\* the entries of the log that are goals of the team with the name in the field
CountField(log, team, field, name) ==
    Cardinality({k \in 1..Len(log) : /\ log[k].type = "goal"
                                     /\ log[k].team = team
                                     /\ log[k][field] = name})

\* C24: for every player in a roster, the goals counter is the number of goal
\* entries of the log with that team and that scorer name and the assists
\* counter the number with that team and that assistant name, after any
\* sequence of commands, KONFIGURACJA and removing or adding players included.
StatsAgreeWithLog ==
    \A team \in Teams : \A player \in Range(Roster(View, team)) :
        /\ player.goals = CountField(actions, team, "scorer", player.name)
        /\ player.assists = CountField(actions, team, "assistant", player.name)

\* C25: whenever the game screen is shown both rosters hold at least 5 and at
\* most 8 players.
RosterSizeInGame ==
    mode = "game" => InRange(yellowPlayers) /\ InRange(bluePlayers)

\* the game entered with a full and a minimal roster after a removal
RosterSizeInGameWitness ==
    /\ mode = "game"
    /\ removals = MaxRemovals
    /\ Len(yellowPlayers) = MaxPlayers
    /\ Len(bluePlayers) = MinPlayers

\* the query went through and answered with at least one row
QuerySucceeds(outcome) ==
    /\ outcome.configured
    /\ ~outcome.throws
    /\ ~outcome.error
    /\ outcome.hasData
    /\ Len(outcome.data) >= 1

-----------------------------------------------------------------------------
\* the chain is inside a call of loadSound
Loading(chain) == soundManager.chains[chain].pc \in {"check", "audio", "wait"}

PlaysOnlyWhenReady ==
    \A playerName \in SoundPlayers : \A team \in Teams : \A playOk \in BOOLEAN :
        LET after == playGoalSound(soundManager, playerName, team, playOk)
            selected == SelectedSound(soundManager, playerName, team)
        IN  /\ after.lastPlay # NoSound =>
                   /\ after.lastPlay = selected
                   /\ soundManager.enabled
                   /\ soundManager.userInteracted
                   /\ selected \in soundManager.audioCache
                   /\ soundManager.loadingStatus[selected] \notin {"loading", "error"}
            /\ [after EXCEPT !.lastPlay = soundManager.lastPlay] = soundManager

\* the yellow team's sound has been played, and sounds are switched off since
GoalSoundWitness ==
    /\ soundManager.lastPlay = "yellow-horn"
    /\ ~soundManager.enabled

\* the sequence without the entries of the id
WithoutSound(sounds, soundId) ==
    LET Kept(entry) == entry # soundId IN SelectSeq(sounds, Kept)

\* C28: after removeCustomSound(id) for an existing custom sound there is no
\* custom-sound entry with that id, no audio cache entry, no load-status entry
\* and no error entry for it, and no player's assignment maps to it; every
\* other custom sound, cache entry and assignment is unchanged.  Removing an
\* unknown id returns false and changes nothing.
RemoveCustomSoundEffect ==
    \A soundId \in Range(CustomIds) :
        LET m == soundManager
            after == removeCustomSound(m, soundId)
        IN  IF soundId \in Range(m.customSounds)
            THEN /\ FindIndex(m.customSounds, soundId) # 0
                 /\ soundId \notin Range(after.customSounds)
                 /\ soundId \notin after.audioCache
                 /\ after.loadingStatus[soundId] = NoSound
                 /\ soundId \notin after.errorDetails
                 /\ \A playerName \in SoundPlayers :
                        /\ after.playerAssignments[playerName] # soundId
                        /\ m.playerAssignments[playerName] # soundId =>
                               after.playerAssignments[playerName]
                                   = m.playerAssignments[playerName]
                 /\ after.customSounds = WithoutSound(m.customSounds, soundId)
                 /\ after.audioCache = m.audioCache \ {soundId}
                 /\ after.errorDetails = m.errorDetails \ {soundId}
                 /\ \A other \in SoundIds \ {soundId} :
                        after.loadingStatus[other] = m.loadingStatus[other]
                 /\ after.enabled = m.enabled /\ after.volume = m.volume
            ELSE /\ FindIndex(m.customSounds, soundId) = 0
                 /\ after = m

\* the first custom sound has been removed; the second, its cache entry and the
\* assignment of a player to it are still there
RemoveCustomSoundWitness ==
    /\ soundManager.customSounds = SubSeq(CustomIds, 2, 2)
    /\ CustomIds[2] \in soundManager.audioCache
    /\ CustomIds[1] \notin soundManager.audioCache
    /\ soundManager.loadingStatus[CustomIds[1]] = NoSound
    /\ soundManager.playerAssignments["Adam T."] = CustomIds[2]
    /\ soundManager.playerAssignments["Adam S."] = NoSound

\* the response the request of the state asks for
Cached(url) == \E entry \in serviceWorker.entries : entry[2] = url

\* C29: the service worker answers a fetch from the cache when a cached
\* response exists and from the network otherwise; when both fail, a document
\* request is answered with the cached /offline page; after activate every
\* cache with a name other than CACHE_NAME is deleted and the current one kept.
WorkerServesAndCleans ==
    /\ [](serviceWorker.phase = "activated" =>
              /\ serviceWorker.cacheNames = {CACHE_NAME}
              /\ \A entry \in serviceWorker.entries : entry[1] = CACHE_NAME
              /\ \A url \in urlsToCache : <<CACHE_NAME, url>> \in serviceWorker.entries)
    /\ [][(serviceWorker.phase = "installed" /\ serviceWorker'.phase = "activated") =>
              serviceWorker'.entries
                  = {entry \in serviceWorker.entries : entry[1] = CACHE_NAME}]_vars
    /\ [](serviceWorker.request # NoRequest =>
              LET request == serviceWorker.request
                  response == serviceWorker.response
              IN  /\ Cached(request.url) =>
                         response = [from |-> "cache", url |-> request.url]
                  /\ (~Cached(request.url) /\ request.online) =>
                         response = [from |-> "network", url |-> request.url]
                  /\ (~Cached(request.url) /\ ~request.online
                                           /\ request.destination = "document") =>
                         response = [from |-> "cache", url |-> "/offline"])

\* offline, a page that is not cached was asked for and the offline page served
OfflinePageWitness ==
    /\ serviceWorker.phase = "activated"
    /\ serviceWorker.request.destination = "document"
    /\ ~serviceWorker.request.online
    /\ serviceWorker.request.url = "/api/players"
    /\ serviceWorker.response = [from |-> "cache", url |-> "/offline"]

=============================================================================
